---- MODULE Spec2Model ----
(***************************************************************************)
(* Model of the agile project tracker: the Task / Sprint classes (V1 and   *)
(* V2.0) and the persistent ProjectManager with its command loop           *)
(* (VARIATION 2).                                                          *)
(*                                                                         *)
(* Text is modelled as a sequence of one-character strings, so that        *)
(* str.lower(), str.strip(), str.split() and int() are computed, not       *)
(* assumed.  Python's None is the integer -1, which is no time and no id.  *)
(***************************************************************************)
EXTENDS Integers, Sequences, FiniteSets, TLC

VARIABLES
    sprint_tasks,   \* Sprint.tasks: the ordered list of Task objects of the sprint
    now,            \* datetime.now(): the wall clock, in ticks
    last,           \* the last call made and what it reported
    manager_tasks,  \* ProjectManager.tasks
    file,           \* the content of DATA_FILE on disk
    pc,             \* where main() is: "start", "loop", "exited" or "crashed"
    rt              \* the to_dict / from_dict round trip under test

vars == <<sprint_tasks, now, last, manager_tasks, file, pc, rt>>

----------------------------------------------------------------------------
(* Bounds of the model.                                                    *)

MaxTasks == 3       \* tasks a Sprint holds at most
MaxTime == 2        \* the clock runs from 0 to MaxTime
MaxManagerTasks == 2 \* tasks a ProjectManager holds at most
MaxClock == 2       \* the millisecond clock of the persistent variant runs to it

----------------------------------------------------------------------------
(* Text.                                                                   *)

ToDo == <<"T", "o", " ", "D", "o">>
InProgress == <<"I", "n", " ", "P", "r", "o", "g", "r", "e", "s", "s">>
Done == <<"D", "o", "n", "e">>
Bogus == <<"B", "o", "g", "u", "s">>

\* The list literal ["To Do", "In Progress", "Done"] of Task.update_status.
ValidStatuses == {ToDo, InProgress, Done}

\* Arguments a caller may pass as a status.
AnyStatus == ValidStatuses \cup {Bogus, << >>}

UpperCase == <<"A", "B", "C", "D", "E", "F", "G", "H", "I", "J", "K", "L", "M",
               "N", "O", "P", "Q", "R", "S", "T", "U", "V", "W", "X", "Y", "Z">>
LowerCase == <<"a", "b", "c", "d", "e", "f", "g", "h", "i", "j", "k", "l", "m",
               "n", "o", "p", "q", "r", "s", "t", "u", "v", "w", "x", "y", "z">>

LowerChar(c) ==
    IF \E i \in 1..26 : UpperCase[i] = c
    THEN LowerCase[CHOOSE i \in 1..26 : UpperCase[i] = c]
    ELSE c

\* str.lower()
lower(s) == [i \in 1..Len(s) |-> LowerChar(s[i])]

----------------------------------------------------------------------------
(* Task and Sprint (V2.0; V1 is the same code without due dates).          *)

None == -1

\* Task.__init__: status "To Do".  description, assignee and created_at are
\* set here and read by no operation of Task or Sprint modelled below (only
\* __repr__ reads assignee), so the record does not carry them.
Task(title, due_date) ==
    [title |-> title, status |-> ToDo, due_date |-> due_date]

update_status_AcceptsAnything(task, new_status) ==
    [task EXCEPT !.status = new_status]

\* Task.update_status (V2.0)
update_status(task, new_status) ==
    IF new_status \in ValidStatuses
    THEN [task EXCEPT !.status = new_status]
    ELSE task

\* Task.update_status (V1)
update_status_v1(task, new_status) ==
    IF new_status \in {ToDo, InProgress, Done}
    THEN [task EXCEPT !.status = new_status]
    ELSE task

is_overdue_NoDueDateGuard(task, t) ==
    IF ~(t > task.due_date) THEN "False"
    ELSE IF task.status # Done THEN "True" ELSE "False"

\* Task.is_overdue: the value of the `and` chain, which is its first falsy
\* operand (None when no due date is set) or its last operand.
is_overdue(task, t) ==
    IF task.due_date = None THEN "None"
    ELSE IF ~(t > task.due_date) THEN "False"
    ELSE IF task.status # Done THEN "True" ELSE "False"

\* Python's truth value of what is_overdue returns.
Truthy(v) == v = "True"

\* Sprint.add_task
add_task(tasks, task) == Append(tasks, task)

\* Index of the first task whose title matches, 0 when there is none
\* (the loop of Sprint.get_task_by_title).
RECURSIVE FirstMatch(_, _, _)
FirstMatch(tasks, title, i) ==
    IF i > Len(tasks) THEN 0
    ELSE IF lower(tasks[i].title) = lower(title) THEN i
    ELSE FirstMatch(tasks, title, i + 1)

get_task_by_title_CaseSensitive(tasks, title) ==
    IF \E i \in 1..Len(tasks) : tasks[i].title = title
    THEN CHOOSE i \in 1..Len(tasks) :
            /\ tasks[i].title = title
            /\ \A j \in 1..(i - 1) : tasks[j].title # title
    ELSE 0

\* Sprint.get_task_by_title: the position of the task returned, 0 for None.
get_task_by_title(tasks, title) == FirstMatch(tasks, title, 1)

\* list.remove of the object at position i: the first occurrence goes.
RemoveAt(tasks, i) ==
    [j \in 1..(Len(tasks) - 1) |-> IF j < i THEN tasks[j] ELSE tasks[j + 1]]

\* Sprint.remove_task
remove_task(tasks, title) ==
    LET i == get_task_by_title(tasks, title)
    IN  IF i # 0
        THEN [tasks |-> RemoveAt(tasks, i), found |-> TRUE]
        ELSE [tasks |-> tasks, found |-> FALSE]

\* Sprint.sprint_status: the dict starts with the three keys at 0 and each
\* task adds one under its status; a status that is no key raises KeyError.
RECURSIVE CountInto(_, _, _)
CountInto(status_count, tasks, i) ==
    IF i > Len(tasks) THEN [raised |-> FALSE, value |-> status_count]
    ELSE IF tasks[i].status \notin DOMAIN status_count
         THEN [raised |-> TRUE, value |-> status_count]
         ELSE CountInto([status_count EXCEPT ![tasks[i].status] = @ + 1],
                        tasks, i + 1)

sprint_status_DoneKeyMissing(tasks) ==
    CountInto([s \in {ToDo, InProgress} |-> 0], tasks, 1)

sprint_status(tasks) ==
    CountInto([s \in {ToDo, InProgress, Done} |-> 0], tasks, 1)

\* Sprint.get_overdue_tasks: the list comprehension, in list order.
RECURSIVE OverdueFrom(_, _, _)
OverdueFrom(tasks, t, i) ==
    IF i > Len(tasks) THEN << >>
    ELSE IF Truthy(is_overdue(tasks[i], t))
         THEN <<tasks[i]>> \o OverdueFrom(tasks, t, i + 1)
         ELSE OverdueFrom(tasks, t, i + 1)

get_overdue_tasks(tasks, t) == OverdueFrom(tasks, t, 1)

----------------------------------------------------------------------------
(* The Sprint driver: a caller creating tasks, adding them to one sprint,  *)
(* removing them by title and updating their status, while time passes.    *)
(* Two drivers: one varies the titles, one the due dates and the clock.    *)

Titles == {<<"a">>, <<"A">>, <<"b">>}
DueDates == {None, 1}

NoFile == [exists |-> FALSE, valid |-> FALSE, doc |-> << >>]
NoRoundTrip == [stage |-> "none"]
NoArg == << >>

InitSprint ==
    /\ sprint_tasks = << >>
    /\ now = 0
    /\ last = [op |-> "init", ok |-> TRUE, arg |-> NoArg]
    /\ manager_tasks = << >>
    /\ file = NoFile
    /\ pc = "start"
    /\ rt = NoRoundTrip

\* task = Task(title, ..., due_date); sprint.add_task(task)
SprintAddTask(titles, due_dates) ==
    /\ Len(sprint_tasks) < MaxTasks
    /\ \E title \in titles, due_date \in due_dates :
          sprint_tasks' = add_task(sprint_tasks, Task(title, due_date))
    /\ last' = [op |-> "add_task", ok |-> TRUE, arg |-> NoArg]
    /\ UNCHANGED <<now, manager_tasks, file, pc, rt>>

\* sprint.remove_task(title)
SprintRemoveTask(titles) ==
    /\ \E title \in titles :
          \E r \in {remove_task(sprint_tasks, title)} :
              /\ sprint_tasks' = r.tasks
              /\ last' = [op |-> "remove_task", ok |-> r.found, arg |-> title]
    /\ UNCHANGED <<now, manager_tasks, file, pc, rt>>

\* task.update_status(new_status) on a task of the sprint
SprintUpdateStatus ==
    /\ \E i \in 1..Len(sprint_tasks), new_status \in AnyStatus :
          /\ sprint_tasks' = [sprint_tasks EXCEPT
                                ![i] = update_status(@, new_status)]
          /\ last' = [op |-> "update_status",
                      ok |-> sprint_tasks'[i].status = new_status,
                      arg |-> new_status]
    /\ UNCHANGED <<now, manager_tasks, file, pc, rt>>

\* Time passes.
Tick ==
    /\ now < MaxTime
    /\ now' = now + 1
    /\ last' = [op |-> "tick", ok |-> TRUE, arg |-> NoArg]
    /\ UNCHANGED <<sprint_tasks, manager_tasks, file, pc, rt>>

NextSprint ==
    \/ SprintAddTask(Titles, {None})
    \/ SprintRemoveTask(Titles)
    \/ SprintUpdateStatus

SpecSprint == InitSprint /\ [][NextSprint]_vars

NextOverdue ==
    \/ SprintAddTask({<<"a">>}, DueDates)
    \/ SprintRemoveTask({<<"a">>})
    \/ SprintUpdateStatus
    \/ Tick

SpecOverdue == InitSprint /\ [][NextOverdue]_vars

----------------------------------------------------------------------------
(* Claims about Task and Sprint.                                           *)

\* C1: update_status(s) sets the status to s when s is one of "To Do",
\* "In Progress", "Done", from any current status, and leaves it unchanged
\* for any other s; so every task's status is always one of the three.
C1_UpdateStatus ==
    /\ [](\A i \in 1..Len(sprint_tasks) :
            /\ sprint_tasks[i].status \in {ToDo, InProgress, Done}
            /\ \A s \in AnyStatus :
                 update_status_v1(sprint_tasks[i], s) =
                    [sprint_tasks[i] EXCEPT !.status =
                        IF s \in {ToDo, InProgress, Done} THEN s ELSE @])
    /\ [][last'.op = "update_status" =>
            \E i \in 1..Len(sprint_tasks) :
                sprint_tasks' = [sprint_tasks EXCEPT ![i].status =
                    IF last'.arg \in {ToDo, InProgress, Done}
                    THEN last'.arg ELSE @]]_vars

\* An invalid status was just refused by a task that is "Done", next to a
\* task that was moved out of "To Do".
C1_Witness ==
    /\ last.op = "update_status"
    /\ last.arg = Bogus
    /\ ~last.ok
    /\ \E i \in 1..Len(sprint_tasks) : sprint_tasks[i].status = Done
    /\ \E i \in 1..Len(sprint_tasks) : sprint_tasks[i].status = InProgress

\* C8: sprint_status() returns a mapping with exactly the three status keys,
\* each value the number of tasks in that status, summing to len(tasks).
C8_SprintStatus ==
    LET r == sprint_status(sprint_tasks)
    IN  /\ ~r.raised
        /\ DOMAIN r.value = {ToDo, InProgress, Done}
        /\ \A s \in {ToDo, InProgress, Done} :
              r.value[s] =
                 Cardinality({i \in 1..Len(sprint_tasks) :
                                 sprint_tasks[i].status = s})
        /\ r.value[ToDo] + r.value[InProgress] + r.value[Done]
              = Len(sprint_tasks)

\* After a removal two tasks are left, both "Done": two keys count zero.
C8_Witness ==
    /\ last.op = "remove_task"
    /\ last.ok
    /\ Len(sprint_tasks) = 2
    /\ sprint_status(sprint_tasks).value[Done] = 2
    /\ sprint_status(sprint_tasks).value[ToDo] = 0

Matches(tasks, title) ==
    {i \in 1..Len(tasks) : lower(tasks[i].title) = lower(title)}

Min(S) == CHOOSE x \in S : \A y \in S : x <= y

\* C9: remove_task(title) removes exactly the first task whose title matches
\* case-insensitively and keeps the others in order; without a match the
\* list is unchanged.  After removing a title that occurred once,
\* get_task_by_title(title) is none; with duplicates it is the first
\* remaining match.
C9_RemoveTask ==
    /\ [](\A title \in Titles :
            LET r == remove_task(sprint_tasks, title)
                m == Matches(sprint_tasks, title)
                n == Len(sprint_tasks)
            IN  IF m = {}
                THEN /\ ~r.found
                     /\ r.tasks = sprint_tasks
                     /\ get_task_by_title(sprint_tasks, title) = 0
                ELSE /\ r.found
                     /\ r.tasks = SubSeq(sprint_tasks, 1, Min(m) - 1)
                                    \o SubSeq(sprint_tasks, Min(m) + 1, n)
                     /\ Cardinality(m) = 1 =>
                           get_task_by_title(r.tasks, title) = 0
                     /\ Cardinality(m) > 1 =>
                           get_task_by_title(r.tasks, title)
                              = Min(Matches(r.tasks, title)))
    /\ [][last'.op = "remove_task" =>
            /\ sprint_tasks' = remove_task(sprint_tasks, last'.arg).tasks
            /\ last'.ok = (Matches(sprint_tasks, last'.arg) # {})
            /\ last'.ok => Len(sprint_tasks') = Len(sprint_tasks) - 1]_vars

\* A title given in another case was removed from a list of three; the
\* second of the two tasks left is a later duplicate of it.
C9_Witness ==
    /\ last.op = "remove_task"
    /\ last.ok
    /\ Len(sprint_tasks) = 2
    /\ sprint_tasks[1].title = <<"b">>
    /\ sprint_tasks[2].title # last.arg
    /\ get_task_by_title(sprint_tasks, last.arg) = 2

IsOverdueSpec(task, t) ==
    /\ task.due_date # None
    /\ task.due_date < t
    /\ task.status # Done

\* C10: is_overdue() holds exactly when a due date is set, it is strictly
\* before now and the status is not "Done"; update_status("Done") ends it and
\* moving back out of "Done" restores it; get_overdue_tasks() is the
\* subsequence of the overdue tasks in insertion order.
C10_Overdue ==
    /\ \A i \in 1..Len(sprint_tasks) :
         LET task == sprint_tasks[i]
             done == update_status(task, Done)
         IN  /\ Truthy(is_overdue(task, now)) <=> IsOverdueSpec(task, now)
             /\ ~Truthy(is_overdue(done, now))
             /\ \A s \in {ToDo, InProgress} :
                  Truthy(is_overdue(update_status(done, s), now))
                     <=> (task.due_date # None /\ task.due_date < now)
    /\ get_overdue_tasks(sprint_tasks, now)
          = SelectSeq(sprint_tasks, LAMBDA task : IsOverdueSpec(task, now))

\* Past the due date, one task was just moved to "Done" and is no longer
\* overdue, while a later task with the same due date is; a task without
\* due date and a task due now are not.
C10_Witness ==
    /\ last.op = "update_status"
    /\ last.arg = Done
    /\ now = 2
    /\ Len(sprint_tasks) = 3
    /\ sprint_tasks[1].due_date = 1 /\ sprint_tasks[1].status = Done
    /\ sprint_tasks[2].due_date = None
    /\ sprint_tasks[3].due_date = 1 /\ sprint_tasks[3].status = ToDo
    /\ get_overdue_tasks(sprint_tasks, now) = <<sprint_tasks[3]>>

----------------------------------------------------------------------------
(* The persistent variant (VARIATION 2): Task, ProjectManager, main.       *)
(*                                                                         *)
(* A Python value read from or written to the file carries its type:       *)
(* a dict, a list or None; numbers and text are the leaves.                *)

PyDict(members) == [type |-> "dict", val |-> members]
PyList(items) == [type |-> "list", val |-> items]
PyNone == [type |-> "NoneType", val |-> << >>]

\* STATUSES = ["To Do", "In Progress", "Done"]
STATUSES == <<ToDo, InProgress, Done>>

InSTATUSES(status) == \E k \in 1..Len(STATUSES) : STATUSES[k] = status

Digit == <<"0", "1", "2", "3", "4", "5", "6", "7", "8", "9">>

IsDigit(c) == \E k \in 1..10 : Digit[k] = c

DigitValue(c) == (CHOOSE k \in 1..10 : Digit[k] = c) - 1

\* str(n) for n >= 0
RECURSIVE Decimal(_)
Decimal(n) ==
    IF n < 10 THEN <<Digit[n + 1]>>
    ELSE Decimal(n \div 10) \o <<Digit[(n % 10) + 1]>>

\* datetime.isoformat(): the text of a time
isoformat(t) == <<"T">> \o Decimal(t)

\* Task._generate_id: int(datetime.now().timestamp() * 1000); the clock of
\* the model ticks in milliseconds.
generate_id(t) == t

Task_init_FalsyIdRegenerated(title, description, status, task_id, t_id, t_created) ==
    [id |-> IF task_id # None /\ task_id # 0 THEN task_id
            ELSE generate_id(t_id),
     title |-> title, description |-> description, status |-> status,
     created_at |-> isoformat(t_created)]

\* Task.__init__ of the persistent variant; the clock is read at t_id for the
\* id (when none is given) and then at t_created for created_at.
Task_init(title, description, status, task_id, t_id, t_created) ==
    [id |-> IF task_id # None THEN task_id ELSE generate_id(t_id),
     title |-> title, description |-> description, status |-> status,
     created_at |-> isoformat(t_created)]

\* Task.to_dict
to_dict(task) ==
    PyDict([id |-> task.id, title |-> task.title,
            description |-> task.description, status |-> task.status,
            created_at |-> task.created_at])

from_dict_KeepsLoadTime(data, t) ==
    IF data.type # "dict" THEN [raised |-> "TypeError", task |-> << >>]
    ELSE IF ~({"title", "description", "status", "id", "created_at"}
                \subseteq DOMAIN data.val)
    THEN [raised |-> "KeyError", task |-> << >>]
    ELSE [raised |-> "",
          task |-> Task_init(data.val.title, data.val.description,
                             data.val.status, data.val.id, t, t)]

\* Task.from_dict: data['title'] ... raise TypeError on what is no dict and
\* KeyError on a missing key; created_at set by __init__ is then overwritten.
from_dict(data, t) ==
    IF data.type # "dict" THEN [raised |-> "TypeError", task |-> << >>]
    ELSE IF ~({"title", "description", "status", "id"} \subseteq DOMAIN data.val)
    THEN [raised |-> "KeyError", task |-> << >>]
    ELSE LET task == Task_init(data.val.title, data.val.description,
                               data.val.status, data.val.id, t, t)
         IN  IF "created_at" \notin DOMAIN data.val
             THEN [raised |-> "KeyError", task |-> << >>]
             ELSE [raised |-> "",
                   task |-> [task EXCEPT !.created_at = data.val.created_at]]

\* json.dump(data, f): the file holds the text of data.
json_dump(data) == [exists |-> TRUE, valid |-> TRUE, doc |-> data]

\* json.load(f): the value the text denotes, or JSONDecodeError.
json_load(f) ==
    IF f.valid THEN [raised |-> "", value |-> f.doc]
    ELSE [raised |-> "JSONDecodeError", value |-> PyNone]

\* [Task.from_dict(d) for d in items]: stops at the first exception.
RECURSIVE FromDicts(_, _, _, _)
FromDicts(items, t, i, acc) ==
    IF i > Len(items) THEN [raised |-> "", tasks |-> acc]
    ELSE LET r == from_dict(items[i], t)
         IN  IF r.raised # "" THEN [raised |-> r.raised, tasks |-> << >>]
             ELSE FromDicts(items, t, i + 1, Append(acc, r.task))

\* ProjectManager.__init__ and _load_data: the task list (assigned only when
\* the whole comprehension succeeded), what was printed, and the exception
\* that left the constructor, "" when none did.
load_data(f, t) ==
    IF ~f.exists THEN [raised |-> "", printed |-> "fresh", tasks |-> << >>]
    ELSE
    LET j == json_load(f) IN
    IF j.raised # ""
    THEN [raised |-> "", printed |-> "warning", tasks |-> << >>]
    ELSE IF j.value.type # "dict"
    THEN [raised |-> "AttributeError", printed |-> "", tasks |-> << >>]
    ELSE
    LET got == IF "tasks" \in DOMAIN j.value.val THEN j.value.val.tasks
               ELSE PyList(<< >>)
    IN  IF got.type = "NoneType"
        THEN [raised |-> "TypeError", printed |-> "", tasks |-> << >>]
        ELSE IF got.type = "dict"
        THEN IF DOMAIN got.val = {}
             THEN [raised |-> "", printed |-> "loaded", tasks |-> << >>]
             ELSE [raised |-> "TypeError", printed |-> "", tasks |-> << >>]
        ELSE LET r == FromDicts(got.val, t, 1, << >>)
             IN  IF r.raised # ""
                 THEN [raised |-> r.raised, printed |-> "", tasks |-> << >>]
                 ELSE [raised |-> "", printed |-> "loaded", tasks |-> r.tasks]

\* ProjectManager._save_data: the whole file is rewritten.
save_data(tasks) ==
    json_dump(PyDict([tasks |->
        PyList([i \in 1..Len(tasks) |-> to_dict(tasks[i])])]))

\* ProjectManager.add_task
ProjectManager_add_task(tasks, title, description, t_id, t_created) ==
    LET new_task == Task_init(title, description, ToDo, None, t_id, t_created)
        appended == Append(tasks, new_task)
    IN  [tasks |-> appended, file |-> save_data(appended), saved |-> TRUE,
         printed |-> "added"]

\* str.strip(), of blanks
RECURSIVE lstrip(_)
lstrip(s) == IF s # << >> /\ Head(s) = " " THEN lstrip(Tail(s)) ELSE s

RECURSIVE rstrip(_)
rstrip(s) ==
    IF s # << >> /\ s[Len(s)] = " " THEN rstrip(SubSeq(s, 1, Len(s) - 1))
    ELSE s

strip(s) == rstrip(lstrip(s))

\* int(text): blanks around, an optional sign, then digits only; anything
\* else raises ValueError.
RECURSIVE DigitsValue(_, _)
DigitsValue(s, acc) ==
    IF s = << >> THEN acc
    ELSE DigitsValue(Tail(s), 10 * acc + DigitValue(Head(s)))

int(text) ==
    LET s == strip(text)
        signed == s # << >> /\ Head(s) \in {"+", "-"}
        digits == IF signed THEN Tail(s) ELSE s
    IN  IF digits = << >> \/ \E k \in 1..Len(digits) : ~IsDigit(digits[k])
        THEN [raised |-> "ValueError", value |-> 0]
        ELSE [raised |-> "",
              value |-> IF signed /\ Head(s) = "-"
                        THEN 0 - DigitsValue(digits, 0)
                        ELSE DigitsValue(digits, 0)]

RECURSIVE FirstWithId(_, _, _)
FirstWithId(tasks, id, i) ==
    IF i > Len(tasks) THEN 0
    ELSE IF tasks[i].id = id THEN i
    ELSE FirstWithId(tasks, id, i + 1)

\* ProjectManager.get_task_by_id: the position of the task returned, 0 for
\* None (also when int() raised ValueError).
get_task_by_id(tasks, task_id) ==
    LET n == int(task_id)
    IN  IF n.raised # "" THEN 0 ELSE FirstWithId(tasks, n.value, 1)

update_task_status_SavesWhenSame(tasks, f, task_id, new_status) ==
    LET i == get_task_by_id(tasks, task_id)
    IN  IF i # 0
        THEN IF InSTATUSES(new_status)
             THEN LET updated == [tasks EXCEPT ![i].status = new_status]
                  IN  [tasks |-> updated, file |-> save_data(updated),
                       saved |-> TRUE, printed |-> "updated"]
             ELSE [tasks |-> tasks, file |-> f, saved |-> FALSE,
                   printed |-> "invalid"]
        ELSE [tasks |-> tasks, file |-> f, saved |-> FALSE,
              printed |-> "not found"]

\* ProjectManager.update_task_status
update_task_status(tasks, f, task_id, new_status) ==
    LET i == get_task_by_id(tasks, task_id)
    IN  IF i # 0
        THEN IF InSTATUSES(new_status)
             THEN IF tasks[i].status # new_status
                  THEN LET updated == [tasks EXCEPT ![i].status = new_status]
                       IN  [tasks |-> updated, file |-> save_data(updated),
                            saved |-> TRUE, printed |-> "updated"]
                  ELSE [tasks |-> tasks, file |-> f, saved |-> FALSE,
                        printed |-> "already"]
             ELSE [tasks |-> tasks, file |-> f, saved |-> FALSE,
                   printed |-> "invalid"]
        ELSE [tasks |-> tasks, file |-> f, saved |-> FALSE,
              printed |-> "not found"]

\* ProjectManager.display_board: board[task.status] raises KeyError for a
\* status that is no key of the board.
display_board(tasks) ==
    IF \E i \in 1..Len(tasks) : ~InSTATUSES(tasks[i].status)
    THEN [raised |-> "KeyError"]
    ELSE [raised |-> ""]

----------------------------------------------------------------------------
(* A caller of ProjectManager: constructed with no backing file, then       *)
(* add_task and update_task_status calls, a fresh manager constructed from  *)
(* the file at any moment, while time passes.                               *)

ManagerTitles == {<<"X">>, <<"X", " ", "2">>}
Descriptions == {<<"Y">>}
IdTexts == {<<"0">>, <<"0", "1">>, <<"9">>, <<"x">>}
StatusTexts == {ToDo, InProgress, Done, Bogus}

InitManager ==
    /\ sprint_tasks = << >>
    /\ now = 0
    /\ manager_tasks = load_data(NoFile, 0).tasks
    /\ file = NoFile
    /\ last = [op |-> "init", saved |-> FALSE, printed |-> "fresh"]
    /\ pc = "api"
    /\ rt = NoRoundTrip

\* manager.add_task(title, description); the clock may tick between the two
\* readings of Task.__init__.
ManagerAddTask ==
    /\ Len(manager_tasks) < MaxManagerTasks
    /\ \E title \in ManagerTitles, description \in Descriptions,
          d \in {0, 1} :
          /\ now + d <= MaxClock
          /\ \E r \in {ProjectManager_add_task(manager_tasks, title,
                                               description, now, now + d)} :
                 /\ manager_tasks' = r.tasks
                 /\ file' = r.file
                 /\ last' = [op |-> "add_task", saved |-> r.saved,
                             printed |-> r.printed]
          /\ now' = now + d
    /\ UNCHANGED <<sprint_tasks, pc, rt>>

\* manager.update_task_status(task_id, new_status)
ManagerUpdateTaskStatus ==
    /\ \E task_id \in IdTexts, new_status \in StatusTexts :
          \E r \in {update_task_status(manager_tasks, file, task_id,
                                       new_status)} :
              /\ manager_tasks' = r.tasks
              /\ file' = r.file
              /\ last' = [op |-> "update_task_status", saved |-> r.saved,
                          printed |-> r.printed]
    /\ UNCHANGED <<sprint_tasks, now, pc, rt>>

\* manager = ProjectManager(): a fresh instance reads the file.
ManagerRestart ==
    /\ \E r \in {load_data(file, now)} :
           /\ r.raised = ""
           /\ manager_tasks' = r.tasks
           /\ last' = [op |-> "restart", saved |-> FALSE,
                       printed |-> r.printed]
    /\ UNCHANGED <<sprint_tasks, now, file, pc, rt>>

ManagerTick ==
    /\ now < MaxClock
    /\ now' = now + 1
    /\ last' = [op |-> "tick", saved |-> FALSE, printed |-> ""]
    /\ UNCHANGED <<sprint_tasks, manager_tasks, file, pc, rt>>

NextManager ==
    \/ ManagerAddTask
    \/ ManagerUpdateTaskStatus
    \/ ManagerRestart
    \/ ManagerTick

SpecManager == InitManager /\ [][NextManager]_vars

\* The tasks an id text identifies: those whose id is the integer it denotes.
Identified(tasks, task_id) ==
    {i \in 1..Len(tasks) :
        int(task_id).raised = "" /\ tasks[i].id = int(task_id).value}

\* What C2 says of one call on the current state.
C2_Call(task_id, new_status) ==
    LET r == update_task_status(manager_tasks, file, task_id, new_status)
        found == Identified(manager_tasks, task_id)
        i == Min(found)
        applies == /\ found # {}
                   /\ new_status \in {ToDo, InProgress, Done}
                   /\ manager_tasks[i].status # new_status
    IN  /\ r.saved <=> applies
        /\ applies =>
             /\ r.tasks = [manager_tasks EXCEPT ![i].status = new_status]
             /\ r.file = save_data(r.tasks)
        /\ ~applies =>
             /\ r.tasks = manager_tasks
             /\ r.file = file

\* C2: update_task_status(id, new_status) rewrites the file iff id identifies
\* a task, new_status is one of the three statuses and differs from the
\* task's status; then only that task's status changes, to new_status.
\* Otherwise the task list and the file stay as they were.
C2_UpdateTaskStatus ==
    /\ [](\A task_id \in IdTexts, new_status \in StatusTexts :
            C2_Call(task_id, new_status))
    /\ [][last'.op = "update_task_status" =>
            /\ ~last'.saved => manager_tasks' = manager_tasks /\ file' = file
            /\ last'.saved =>
                 /\ file' = save_data(manager_tasks')
                 /\ \E i \in 1..Len(manager_tasks) :
                      /\ manager_tasks'[i].status # manager_tasks[i].status
                      /\ manager_tasks'[i].status \in {ToDo, InProgress, Done}
                      /\ manager_tasks' =
                           [manager_tasks EXCEPT
                              ![i].status = manager_tasks'[i].status]]_vars

\* A task that is already "Done" was moved to "Done" again: nothing written;
\* a second task has the same id and is still "To Do".
C2_Witness ==
    /\ last.op = "update_task_status"
    /\ last.printed = "already"
    /\ ~last.saved
    /\ Len(manager_tasks) = 2
    /\ manager_tasks[1].id = manager_tasks[2].id
    /\ manager_tasks[1].status = Done
    /\ manager_tasks[2].status = ToDo

\* C3: a manager started without backing file has no tasks, and after every
\* add_task and update_task_status call a fresh ProjectManager constructed
\* from the file, now or later, holds a task list equal to the one in
\* memory: same length, order, id, title, description, status, created_at.
C3_ReloadEqualsMemory ==
    /\ last.op = "init" => manager_tasks = << >>
    /\ \A t \in now..MaxClock :
         LET r == load_data(file, t)
         IN  /\ r.raised = ""
             /\ Len(r.tasks) = Len(manager_tasks)
             /\ \A i \in 1..Len(manager_tasks) :
                  /\ r.tasks[i].id = manager_tasks[i].id
                  /\ r.tasks[i].title = manager_tasks[i].title
                  /\ r.tasks[i].description = manager_tasks[i].description
                  /\ r.tasks[i].status = manager_tasks[i].status
                  /\ r.tasks[i].created_at = manager_tasks[i].created_at

\* Two tasks, the first created at time 0, the second since moved to
\* "In Progress", and the clock has moved on since.
C3_Witness ==
    /\ last.op = "update_task_status"
    /\ last.saved
    /\ now > 0
    /\ Len(manager_tasks) = 2
    /\ manager_tasks[1].created_at = isoformat(0)
    /\ manager_tasks[1].title # manager_tasks[2].title
    /\ manager_tasks[2].status = InProgress
    /\ file.exists

----------------------------------------------------------------------------
(* The round trip of one task through to_dict and from_dict.  The task is   *)
(* any the class can hold: whatever id, title, description, status and      *)
(* created_at text its attributes were given.                               *)

RoundTripIds == {0, 1, 1234567890}
RoundTripCreated == {isoformat(0), isoformat(1), <<"?">>}

InitRoundTrip ==
    /\ sprint_tasks = << >>
    /\ now = 0
    /\ manager_tasks = << >>
    /\ file = NoFile
    /\ last = [op |-> "init", saved |-> FALSE, printed |-> ""]
    /\ pc = "api"
    /\ \E id \in RoundTripIds, title \in Titles, description \in Descriptions,
          status \in AnyStatus, created_at \in RoundTripCreated :
          rt = [stage |-> "task",
                task |-> [id |-> id, title |-> title,
                          description |-> description, status |-> status,
                          created_at |-> created_at]]

\* data = task.to_dict()
RoundTripEncode ==
    /\ rt.stage = "task"
    /\ rt' = [stage |-> "dict", task |-> rt.task, data |-> to_dict(rt.task)]
    /\ last' = [op |-> "to_dict", saved |-> FALSE, printed |-> ""]
    /\ UNCHANGED <<sprint_tasks, now, manager_tasks, file, pc>>

\* back = Task.from_dict(data), at the time it is
RoundTripDecode ==
    /\ rt.stage = "dict"
    /\ rt' = [stage |-> "back", task |-> rt.task, data |-> rt.data,
              back |-> from_dict(rt.data, now)]
    /\ last' = [op |-> "from_dict", saved |-> FALSE, printed |-> ""]
    /\ UNCHANGED <<sprint_tasks, now, manager_tasks, file, pc>>

NextRoundTrip == RoundTripEncode \/ RoundTripDecode \/ ManagerTick

SpecRoundTrip == InitRoundTrip /\ [][NextRoundTrip]_vars

\* C6: Task.from_dict(task.to_dict()) equals the task in id, title,
\* description and status, and its created_at is the stored text, not the
\* time of decoding.
C6_RoundTrip ==
    rt.stage = "back" =>
        /\ rt.back.raised = ""
        /\ rt.back.task.id = rt.task.id
        /\ rt.back.task.title = rt.task.title
        /\ rt.back.task.description = rt.task.description
        /\ rt.back.task.status = rt.task.status
        /\ rt.back.task.created_at = rt.task.created_at

\* A task with id 0 and a status outside the three, created at time 0, was
\* encoded and then decoded at a later time.
C6_Witness ==
    /\ rt.stage = "back"
    /\ rt.task.id = 0
    /\ rt.task.status = Bogus
    /\ rt.task.created_at = isoformat(0)
    /\ now > 0

----------------------------------------------------------------------------
(* main(): the construction of the manager from whatever the backing file   *)
(* holds, then the command loop, one iteration per step.                    *)

\* input() at end of input raises EOFError; otherwise it returns the line.
EOF == <<"<EOF>">>

\* Position of the first blank of s, Len(s) + 1 when it has none.
RECURSIVE WordEnd(_, _)
WordEnd(s, i) ==
    IF i > Len(s) \/ s[i] = " " THEN i ELSE WordEnd(s, i + 1)

\* str.split(maxsplit=n) on whitespace: at most n words are split off, and
\* what follows them, without its leading blanks, is the last part.
RECURSIVE split(_, _)
split(s, maxsplit) ==
    LET u == lstrip(s)
    IN  IF u = << >> THEN << >>
        ELSE IF maxsplit = 0 THEN <<u>>
        ELSE LET k == WordEnd(u, 1)
             IN  <<SubSeq(u, 1, k - 1)>>
                    \o split(SubSeq(u, k, Len(u)), maxsplit - 1)

Result(tasks, f, next_pc, outcome, saved, fault, description) ==
    [tasks |-> tasks, file |-> f, pc |-> next_pc, outcome |-> outcome,
     saved |-> saved, fault |-> fault, description |-> description]

main_except_Reraises(tasks, f, fault, description) ==
    Result(tasks, f, "crashed", "fault", FALSE, fault, description)

\* except Exception as e: print, manager._save_data(), loop again.
main_except(tasks, f, fault, description) ==
    Result(tasks, save_data(tasks), "loop", "fault", TRUE, fault, description)

\* One iteration of `while True:` in main; `line` is what input("PM > ")
\* gives and `description_line` what the second input() gives if reached.
main_iteration(tasks, f, line, description_line, t_id, t_created) ==
    IF line = EOF THEN main_except(tasks, f, "EOFError", << >>)
    ELSE
    LET user_input == strip(line) IN
    IF user_input = << >>
    THEN Result(tasks, f, "loop", "empty", FALSE, "", << >>)
    ELSE
    LET parts == split(user_input, 2)
        command == lower(parts[1])
    IN
    IF command = <<"e", "x", "i", "t">>
    THEN Result(tasks, f, "exited", "exit", FALSE, "", << >>)
    ELSE IF command = <<"h", "e", "l", "p">>
    THEN Result(tasks, f, "loop", "help", FALSE, "", << >>)
    ELSE IF command = <<"l", "i", "s", "t">>
    THEN Result(tasks, f, "loop", "list", FALSE, "", << >>)
    ELSE IF command = <<"b", "o", "a", "r", "d">>
    THEN IF display_board(tasks).raised # ""
         THEN main_except(tasks, f, display_board(tasks).raised, << >>)
         ELSE Result(tasks, f, "loop", "board", FALSE, "", << >>)
    ELSE IF command = <<"a", "d", "d">>
    THEN IF Len(parts) < 2
         THEN Result(tasks, f, "loop", "usage", FALSE, "", << >>)
         ELSE IF description_line = EOF
         THEN main_except(tasks, f, "EOFError", EOF)
         ELSE LET title == parts[2]
                  description == strip(description_line)
                  r == ProjectManager_add_task(tasks, title, description,
                                               t_id, t_created)
              IN  Result(r.tasks, r.file, "loop", "added", r.saved, "",
                         description_line)
    ELSE IF command = <<"m", "o", "v", "e">>
    THEN IF Len(parts) < 3
         THEN Result(tasks, f, "loop", "usage", FALSE, "", << >>)
         ELSE LET r == update_task_status(tasks, f, parts[2], parts[3])
              IN  Result(r.tasks, r.file, "loop", r.printed, r.saved, "",
                         << >>)
    ELSE Result(tasks, f, "loop", "unknown", FALSE, "", << >>)

Lines ==
    { <<"e", "x", "i", "t">>,
      <<"E", "x", "i", "t", " ", "n", "o", "w">>,
      <<"h", "e", "l", "p">>,
      <<"l", "i", "s", "t">>,
      <<" ", "b", "o", "a", "r", "d", " ">>,
      <<"a", "d", "d">>,
      <<"a", "d", "d", " ", "N">>,
      <<"a", "d", "d", " ", "N", " ", "F">>,
      <<"m", "o", "v", "e", " ", "0">>,
      <<"m", "o", "v", "e", " ", "0", " ", "D", "o", "n", "e">>,
      <<"m", "o", "v", "e", " ", "0", " ">> \o InProgress,
      <<"m", "o", "v", "e", " ", "x", " ">> \o Bogus,
      <<" ">>,
      <<"z", "a", "p">>,
      EOF }

DescriptionLines == { <<" ", "d", " ">>, EOF }

Blocked == <<"B", "l", "o", "c", "k", "e", "d">>

\* What the backing file may hold when main starts.
FileChoices ==
    << NoFile,
       [exists |-> TRUE, valid |-> FALSE, doc |-> PyNone],
       json_dump(PyDict(<< >>)),
       json_dump(PyList(<< >>)),
       json_dump(PyDict([tasks |-> PyNone])),
       json_dump(PyDict([tasks |-> PyList(<<PyDict([title |-> <<"N">>])>>)])),
       json_dump(PyDict([tasks |-> PyList(<<PyDict(
           [id |-> 0, title |-> <<"N">>, description |-> <<"d">>,
            status |-> Blocked, created_at |-> isoformat(0)])>>)])),
       save_data(<<Task_init(<<"N">>, <<"d">>, ToDo, None, 0, 0)>>) >>

InitMain ==
    /\ sprint_tasks = << >>
    /\ now = 0
    /\ manager_tasks = << >>
    /\ \E k \in 1..Len(FileChoices) : file = FileChoices[k]
    /\ last = [op |-> "init", outcome |-> "", saved |-> FALSE, fault |-> "",
               line |-> << >>, description |-> << >>]
    /\ pc = "start"
    /\ rt = NoRoundTrip

\* manager = ProjectManager(): an exception leaves main.
MainStart ==
    /\ pc = "start"
    /\ \E r \in {load_data(file, now)} :
           /\ manager_tasks' = r.tasks
           /\ pc' = IF r.raised # "" THEN "crashed" ELSE "loop"
           /\ last' = [op |-> "construct", outcome |-> r.printed,
                       saved |-> FALSE, fault |-> r.raised,
                       line |-> << >>, description |-> << >>]
    /\ UNCHANGED <<sprint_tasks, now, file, rt>>

\* One command read and handled.
MainCommand ==
    /\ pc = "loop"
    /\ \E line \in Lines, description_line \in DescriptionLines, d \in {0, 1} :
          /\ now + d <= MaxClock
          /\ \E r \in {main_iteration(manager_tasks, file, line,
                                      description_line, now, now + d)} :
                 /\ Len(r.tasks) <= MaxManagerTasks
                 /\ manager_tasks' = r.tasks
                 /\ file' = r.file
                 /\ pc' = r.pc
                 /\ now' = IF r.outcome = "added" THEN now + d ELSE now
                 /\ last' = [op |-> "command", outcome |-> r.outcome,
                             saved |-> r.saved, fault |-> r.fault,
                             line |-> line, description |-> r.description]
    /\ UNCHANGED <<sprint_tasks, rt>>

\* Time passes at the prompt.
MainTick ==
    /\ pc = "loop"
    /\ now < MaxClock
    /\ now' = now + 1
    /\ last' = [op |-> "tick", outcome |-> "", saved |-> FALSE, fault |-> "",
                line |-> << >>, description |-> << >>]
    /\ UNCHANGED <<sprint_tasks, manager_tasks, file, pc, rt>>

NextMain == MainStart \/ MainCommand \/ MainTick

SpecMain == InitMain /\ [][NextMain]_vars

----------------------------------------------------------------------------
(* Claims about main.                                                      *)

\* The file holds a `tasks` list of complete task records.
IsTaskListFile(f) ==
    /\ f.exists
    /\ f.valid
    /\ f.doc.type = "dict"
    /\ "tasks" \in DOMAIN f.doc.val
    /\ f.doc.val.tasks.type = "list"
    /\ \A k \in 1..Len(f.doc.val.tasks.val) :
         LET d == f.doc.val.tasks.val[k]
         IN  /\ d.type = "dict"
             /\ DOMAIN d.val =
                  {"id", "title", "description", "status", "created_at"}

\* C4: constructing a ProjectManager never fails because of the file's
\* content: without a file, and with a file that is no valid structured data
\* or whose shape is not a `tasks` list of complete task records, it
\* completes with an empty task list instead of raising.
C4_ConstructionNeverFails ==
    last.op = "construct" =>
        /\ last.fault = ""
        /\ pc = "loop"
        /\ ~IsTaskListFile(file) => manager_tasks = << >>

\* The command word of a line: its first word, in lower case.
CommandOf(line) == lower(split(strip(line), 1)[1])

\* The text after the command word of a line.
TextAfterCommand(line) == split(strip(line), 1)[2]

IsText(line) == line # EOF /\ strip(line) # << >>

\* C5: `add <title>` followed by a description line appends exactly one
\* task whose title is the whole text after `add`, whose description is the
\* description entered and whose status is "To Do", and the file holds it
\* before the next prompt.
C5_AddTakesWholeTitle ==
    (/\ last.op = "command"
     /\ IsText(last.line)
     /\ CommandOf(last.line) = <<"a", "d", "d">>
     /\ Len(split(strip(last.line), 1)) = 2
     /\ last.description # EOF)
    => /\ last.outcome = "added"
       /\ manager_tasks # << >>
       /\ LET task == manager_tasks[Len(manager_tasks)]
          IN  /\ task.title = TextAfterCommand(last.line)
              /\ task.description = strip(last.description)
              /\ task.status = ToDo
       /\ file = save_data(manager_tasks)

KnownCommands ==
    { <<"e", "x", "i", "t">>, <<"h", "e", "l", "p">>, <<"l", "i", "s", "t">>,
      <<"b", "o", "a", "r", "d">>, <<"a", "d", "d">>, <<"m", "o", "v", "e">> }

====
